---------------------------- MODULE Spec2Model ----------------------------
(***************************************************************************)
(* PerfLite (perf_lite.h): the micro-benchmark runner Benchmark::run, the  *)
(* reducer BenchmarkResult::calculate_statistics and the conversion        *)
(* to_unit, with the drivers of test/unit_tests.cpp.                       *)
(*                                                                         *)
(* Representation.                                                         *)
(*  - A double is an exact rational [n, d] in lowest terms, d > 0.  The    *)
(*    inputs are chosen so that every value stays inside TLC's 32-bit      *)
(*    integers; TLC stops with an error on an overflow.                    *)
(*  - std::sqrt(v) is kept as [sq |-> v]: the square root is injective on  *)
(*    the non-negative rationals, so two results are equal exactly when    *)
(*    their radicands are.                                                 *)
(*  - std::vector<nanoseconds> is kept run-length encoded, a sequence of   *)
(*    [v |-> sample, k |-> repetitions] with neighbouring runs of          *)
(*    different v: the encoding is one-to-one with the vector and lets a   *)
(*    vector of 1,000,000 samples be a state.                              *)
(*  - The three loops of run() over the callable are each one action that  *)
(*    runs the loop to its end or to the invocation on which the callable  *)
(*    throws; `calls` counts the invocations made.                         *)
(***************************************************************************)
EXTENDS Integers, Sequences, FiniteSets

VARIABLES
    warmup_iterations_,   \* Benchmark::warmup_iterations_
    iterations_,          \* Benchmark::iterations_
    target_duration_,     \* Benchmark::target_duration_, in milliseconds
    time_unit_,           \* Benchmark::time_unit_
    pc,                   \* position of the driver / of run()
    fail_at,              \* the callable throws on this invocation (0: never)
    calls,                \* invocations of the callable made so far
    total_time,           \* run(): total_time.count() of the calibration probe, ns
    adjusted_iterations,  \* run(): adjusted_iterations
    result,               \* the BenchmarkResult under construction
    ret,                  \* what run() handed to its caller
    cerr,                 \* number of warnings written to std::cerr
    conv                  \* the last to_unit call: argument, unit and value

vars == <<warmup_iterations_, iterations_, target_duration_, time_unit_, pc,
          fail_at, calls, total_time, adjusted_iterations, result, ret, cerr, conv>>

---------------------------------------------------------------------------
(* Bounds of the explored inputs. *)

MaxCount == 2          \* setter arguments warmup(0..MaxCount), iterations(0..MaxCount)
MaxTargetMs == 2       \* setter arguments target_duration(-1..MaxTargetMs)
MaxFail == 3           \* the callable may throw on invocation 1..MaxFail of a loop window
MaxLen == 3            \* samples pushed by hand before calculate_statistics
MaxStep == 12          \* to_unit arguments are multiples of 500 ns up to MaxStep * 500

---------------------------------------------------------------------------
(* Program constants. *)

DefaultWarmup == 10
DefaultIterations == 1000
DefaultTargetMs == 100
CalibrationIterations == 1000
MinIterations == 1000
MaxIterations == 1000000
NsPerMs == 1000000
Giga == 1000000000

TimeUnit == {"Nanoseconds", "Microseconds", "Milliseconds", "Seconds"}

\* Nanoseconds in one tick of the duration type each case of to_unit casts to.
Period(unit) ==
    CASE unit = "Nanoseconds"  -> 1
      [] unit = "Microseconds" -> 1000
      [] unit = "Milliseconds" -> 1000000
      [] unit = "Seconds"      -> 1000000000

---------------------------------------------------------------------------
(* double arithmetic, exact. *)

Abs(x) == IF x < 0 THEN -x ELSE x

RECURSIVE GCD(_, _)
GCD(a, b) == IF b = 0 THEN a ELSE GCD(b, a % b)

\* The double with value n / d (d # 0).
Rat(n, d) ==
    LET g == GCD(Abs(n), Abs(d))
        s == IF d < 0 THEN -1 ELSE 1
    IN  [n |-> s * (n \div g), d |-> s * (d \div g)]

Zero == Rat(0, 1)

RatOfInt(i) == Rat(i, 1)

RatAdd(a, b) ==
    LET g == GCD(a.d, b.d)
        l == (a.d \div g) * b.d
    IN  Rat(a.n * (l \div a.d) + b.n * (l \div b.d), l)

RatNeg(a) == [n |-> -a.n, d |-> a.d]

RatSub(a, b) == RatAdd(a, RatNeg(b))

\* Cross-reduced so that the product is formed from the factors of the result.
RatMul(a, b) ==
    LET g1 == GCD(Abs(a.n), b.d)
        g2 == GCD(Abs(b.n), a.d)
    IN  Rat((a.n \div g1) * (b.n \div g2), (a.d \div g2) * (b.d \div g1))

\* a / b for b # 0.
RatDiv(a, b) == RatMul(a, Rat(b.d, b.n))

\* a < b: by the integer parts (floor) and, when these agree, by the fractional
\* parts ra / a.d < rb / b.d, that is floor(ra * b.d / rb) < a.d for rb > 0.
RatLT(a, b) ==
    LET fa == a.n \div a.d
        fb == b.n \div b.d
        ra == a.n % a.d
        rb == b.n % b.d
    IN  IF fa # fb THEN fa < fb
        ELSE rb > 0 /\ ((ra * b.d) \div rb) < a.d

RatLE(a, b) == ~RatLT(b, a)

\* std::sqrt of a double; NaN (compares false with everything) below zero.
Sqrt(v) == [sq |-> v]

SqrtGE0(s) == RatLE(Zero, s.sq)

\* std::sqrt(...) == r
SqrtEq(s, r) == RatLE(Zero, r) /\ RatMul(r, r) = s.sq

---------------------------------------------------------------------------
(* to_unit *)

\* std::chrono::duration_cast to a coarser integer duration: the quotient is
\* truncated toward zero.
duration_cast(ns, period) ==
    IF ns >= 0 THEN ns \div period ELSE -((-ns) \div period)

\* to_unit(d, unit): the tick count of the cast duration, returned as a double.
to_unit(d, unit) == RatOfInt(duration_cast(d, Period(unit)))

---------------------------------------------------------------------------
(* std::vector<std::chrono::nanoseconds>, run-length encoded. *)

\* An empty vector.
EmptyDurations == << >>

\* durations.size()
Size(durs) ==
    LET RECURSIVE Count(_)
        Count(i) == IF i = 0 THEN 0 ELSE durs[i].k + Count(i - 1)
    IN  Count(Len(durs))

\* k times durations.push_back(d), k >= 0.
push_back_n(durs, d, k) ==
    IF k = 0 THEN durs
    ELSE IF Len(durs) > 0 /\ durs[Len(durs)].v = d
         THEN [durs EXCEPT ![Len(durs)].k = @ + k]
         ELSE Append(durs, [v |-> d, k |-> k])

\* durations.push_back(d)
push_back(durs, d) == push_back_n(durs, d, 1)

\* *std::min_element(durations.begin(), durations.end()), durations not empty.
min_element(durs) ==
    LET RECURSIVE Least(_)
        Least(i) ==
            IF i = 1 THEN durs[1].v
            ELSE LET m == Least(i - 1) IN IF durs[i].v < m THEN durs[i].v ELSE m
    IN  Least(Len(durs))

\* std::accumulate(durations.begin(), durations.end(), nanoseconds(0)).count()
accumulate(durs) ==
    LET RECURSIVE Sum(_)
        Sum(i) == IF i = 0 THEN 0 ELSE Sum(i - 1) + durs[i].v * durs[i].k
    IN  Sum(Len(durs))

\* The loop of lines 92-95: the sum over the samples d of
\* (to_unit(d, unit) - mean)^2; equal samples contribute equal terms.
squared_deviations(durs, unit, mean) ==
    LET Term(i) ==
            LET diff == RatSub(to_unit(durs[i].v, unit), mean)
            IN  RatMul(RatOfInt(durs[i].k), RatMul(diff, diff))
        RECURSIVE Sum(_)
        Sum(i) == IF i = 0 THEN Zero ELSE RatAdd(Sum(i - 1), Term(i))
    IN  Sum(Len(durs))

---------------------------------------------------------------------------
(* BenchmarkResult *)

\* BenchmarkResult(unit): every derived field at its zero default.
BenchmarkResult(unit) ==
    [durations   |-> EmptyDurations,
     min_time    |-> Zero,
     mean_time   |-> Zero,
     stddev_time |-> Sqrt(Zero),
     ops_per_sec |-> Zero,
     time_unit   |-> unit]

\* A mean that converts every sample before adding them up.
mean_of_converted_samples(durs, unit) ==
    LET RECURSIVE Sum(_)
        Sum(i) == IF i = 0 THEN Zero
                  ELSE RatAdd(Sum(i - 1),
                              RatMul(RatOfInt(durs[i].k), to_unit(durs[i].v, unit)))
    IN  RatDiv(Sum(Len(durs)), RatOfInt(Size(durs)))

\* mean_time: the sum of the samples is converted, then divided by their number.
mean_of(durs, unit) ==
    RatDiv(to_unit(accumulate(durs), unit), RatOfInt(Size(durs)))

\* The record calculate_statistics leaves behind.
statistics_of(r) ==
    IF Size(r.durations) = 0 THEN r
    ELSE
      LET n        == Size(r.durations)
          sum      == accumulate(r.durations)
          mean     == mean_of(r.durations, r.time_unit)
          sumsq    == squared_deviations(r.durations, r.time_unit, mean)
          variance == IF n > 1 THEN RatDiv(sumsq, RatOfInt(n - 1)) ELSE Zero
          mean_ns  == RatDiv(to_unit(sum, "Nanoseconds"), RatOfInt(n))
      IN  [r EXCEPT
             !.min_time    = to_unit(min_element(r.durations), r.time_unit),
             !.mean_time   = mean,
             !.stddev_time = Sqrt(variance),
             !.ops_per_sec = IF RatLT(Rat(1, Giga), mean_ns)
                             THEN RatDiv(RatOfInt(Giga), mean_ns)
                             ELSE Zero]

\* An empty-sample path that returns without a word.
no_warning(r) == 0

\* The number of warnings calculate_statistics writes to std::cerr.
warnings_of(r) == IF Size(r.durations) = 0 THEN 1 ELSE 0

\* r.calculate_statistics(): the record afterwards and the warnings written.
calculate_statistics(r) == [r |-> statistics_of(r), warned |-> warnings_of(r)]

---------------------------------------------------------------------------
(* Benchmark: construction and the fluent setters *)

\* Benchmark(): the default configuration.
Benchmark ==
    /\ warmup_iterations_ = DefaultWarmup
    /\ iterations_ = DefaultIterations
    /\ target_duration_ = DefaultTargetMs
    /\ time_unit_ = "Nanoseconds"

\* No run() has been entered and nothing has been returned.
NotStarted ==
    /\ fail_at = 0
    /\ calls = 0
    /\ total_time = 0
    /\ adjusted_iterations = 0
    /\ ret = << >>
    /\ cerr = 0
    /\ conv = << >>

run_vars == <<fail_at, calls, total_time, adjusted_iterations, result, ret, cerr, conv>>

\* An assert that checks nothing.
assert_disabled(cond) == TRUE

\* assert(cond), compiled in (NDEBUG not defined, as the tests' own asserts
\* need): the program goes on only when cond holds, and aborts otherwise.
assert(cond) == cond

\* Benchmark& warmup(size_t count)
warmup(count) ==
    /\ pc = "idle"
    /\ IF assert(count > 0)
       THEN warmup_iterations_' = count /\ pc' = pc
       ELSE pc' = "aborted" /\ UNCHANGED warmup_iterations_
    /\ UNCHANGED <<iterations_, target_duration_, time_unit_, run_vars>>

\* Benchmark& iterations(size_t count)
iterations(count) ==
    /\ pc = "idle"
    /\ IF assert(count > 0)
       THEN iterations_' = count /\ pc' = pc
       ELSE pc' = "aborted" /\ UNCHANGED iterations_
    /\ UNCHANGED <<warmup_iterations_, target_duration_, time_unit_, run_vars>>

\* Benchmark& target_duration(std::chrono::milliseconds duration)
target_duration(duration) ==
    /\ pc = "idle"
    /\ IF assert(duration > 0)
       THEN target_duration_' = duration /\ pc' = pc
       ELSE pc' = "aborted" /\ UNCHANGED target_duration_
    /\ UNCHANGED <<warmup_iterations_, iterations_, time_unit_, run_vars>>

\* Benchmark& unit(TimeUnit unit)
unit(u) ==
    /\ pc = "idle"
    /\ time_unit_' = u
    /\ UNCHANGED <<warmup_iterations_, iterations_, target_duration_, pc, run_vars>>

---------------------------------------------------------------------------
(* Benchmark::run *)

config_vars == <<warmup_iterations_, iterations_, target_duration_, time_unit_>>

\* A loop that swallows the callable's exception.
NeverThrows(c, f, k) == FALSE

\* A loop of k invocations entered after c invocations: whether the callable,
\* which throws on invocation f, throws inside the loop.
Throws(c, f, k) == f > c /\ f <= c + k

\* The invocations made when the loop is left (by its end or by the exception).
CallsAfter(c, f, k) == IF Throws(c, f, k) THEN f ELSE c + k

\* The invocations of the loop that returned normally.
Completed(c, f, k) == IF Throws(c, f, k) THEN f - c - 1 ELSE k

\* Values of uint64_t above this are kept as this one; std::min with 1'000'000
\* maps them all alike.
U64Ceiling == 2000000000

\* static_cast<uint64_t>(static_cast<double>(target_ns) / tpi), tpi > 0:
\* floor(target_ns * tpi.d / tpi.n).
truncated_quotient(target_ns, tpi) ==
    LET hi == target_ns \div tpi.n
    IN  IF hi >= U64Ceiling \div tpi.d
        THEN U64Ceiling
        ELSE hi * tpi.d + ((target_ns % tpi.n) * tpi.d) \div tpi.n

Max(a, b) == IF a < b THEN b ELSE a

Min(a, b) == IF b < a THEN b ELSE a

\* An adjustment without the lower clamp.
AdjustedIterations_no_minimum(nominal, target_ms, total) ==
    IF total > 0
    THEN Min(truncated_quotient(target_ms * NsPerMs, Rat(total, 1000)), MaxIterations)
    ELSE nominal

\* An adjustment that clamps the fallback too.
AdjustedIterations_clamp_always(nominal, target_ms, total) ==
    Min(Max(IF total > 0
            THEN truncated_quotient(target_ms * NsPerMs, Rat(total, 1000))
            ELSE nominal,
            MinIterations), MaxIterations)

\* adjusted_iterations as the measurement loop reads it.
AdjustedIterations(nominal, target_ms, total) ==
    IF total > 0
    THEN LET target_duration_ns    == target_ms * NsPerMs
             time_per_iteration_ns == Rat(total, 1000)
             adjusted == IF RatLT(Zero, time_per_iteration_ns)
                         THEN truncated_quotient(target_duration_ns, time_per_iteration_ns)
                         ELSE nominal
         IN  Min(Max(adjusted, MinIterations), MaxIterations)
    ELSE nominal

\* run(func) is entered: the result record is constructed.  The callable is
\* the argument: it throws on its f-th invocation, or never (0).
run_begin(f) ==
    /\ pc = "idle"
    /\ fail_at' = f
    /\ calls' = 0
    /\ result' = BenchmarkResult(time_unit_)
    /\ pc' = "warmup"
    /\ UNCHANGED <<config_vars, total_time, adjusted_iterations, ret, cerr, conv>>

\* A warmup loop that runs once too often.
run_warmup_once_more ==
    /\ pc = "warmup"
    /\ calls' = CallsAfter(calls, fail_at, warmup_iterations_ + 1)
    /\ pc' = IF Throws(calls, fail_at, warmup_iterations_ + 1) THEN "failed" ELSE "calibrating"
    /\ UNCHANGED <<config_vars, fail_at, total_time, adjusted_iterations, result, ret, cerr, conv>>

\* The warmup loop.
run_warmup ==
    /\ pc = "warmup"
    /\ calls' = CallsAfter(calls, fail_at, warmup_iterations_)
    /\ pc' = IF Throws(calls, fail_at, warmup_iterations_) THEN "failed" ELSE "calibrating"
    /\ UNCHANGED <<config_vars, fail_at, total_time, adjusted_iterations, result, ret, cerr, conv>>

\* The calibration probe: 1000 invocations between two clock readings, whose
\* difference total is what the clock gives.
run_calibrate(total) ==
    /\ pc = "calibrating"
    /\ calls' = CallsAfter(calls, fail_at, CalibrationIterations)
    /\ IF Throws(calls, fail_at, CalibrationIterations)
       THEN pc' = "failed" /\ UNCHANGED total_time
       ELSE pc' = "adjusting" /\ total_time' = total
    /\ UNCHANGED <<config_vars, fail_at, adjusted_iterations, result, ret, cerr, conv>>

\* The adjustment of the iteration count.
run_adjust ==
    /\ pc = "adjusting"
    /\ adjusted_iterations' = AdjustedIterations(iterations_, target_duration_, total_time)
    /\ pc' = "measuring"
    /\ UNCHANGED <<config_vars, fail_at, calls, total_time, result, ret, cerr, conv>>

\* The measurement loop: every invocation that returns appends the elapsed
\* time the clock gives for it.
run_measure(elapsed) ==
    /\ pc = "measuring"
    /\ calls' = CallsAfter(calls, fail_at, adjusted_iterations)
    /\ result' = [result EXCEPT !.durations =
                    push_back_n(@, elapsed, Completed(calls, fail_at, adjusted_iterations))]
    /\ pc' = IF Throws(calls, fail_at, adjusted_iterations) THEN "failed" ELSE "reducing"
    /\ UNCHANGED <<config_vars, fail_at, total_time, adjusted_iterations, ret, cerr, conv>>

\* result.calculate_statistics(); return result;
run_reduce ==
    /\ pc = "reducing"
    /\ LET c == calculate_statistics(result)
       IN  /\ result' = c.r
           /\ ret' = <<c.r>>
           /\ cerr' = cerr + c.warned
    /\ pc' = "reduced"
    /\ UNCHANGED <<config_vars, fail_at, calls, total_time, adjusted_iterations, conv>>

---------------------------------------------------------------------------
(* The explored inputs *)

\* Arguments given to warmup().
WarmupArgs == 0..MaxCount

\* Arguments given to iterations(): small counts and one above the cap.
IterationArgs == (0..MaxCount) \cup {1200000}

\* Arguments given to target_duration(), in milliseconds.
TargetArgs == (-1)..MaxTargetMs

\* Invocations on which the callable may throw (0: never).
FailPoints == {0} \cup (1..MaxFail) \cup {CalibrationIterations + k : k \in 1..MaxFail}

\* Totals the clock may give for the calibration probe, ns.
TotalTimes == {-1, 0, 1, 1000, 500000, 1000000, 1500000, 2000000}

\* Elapsed times the clock may give for one measured invocation, ns.
ElapsedTimes == {0, 500}

\* Samples pushed by hand, ns.
SampleTimes == {-1500, 0, 1000, 1500, 2000, 3000}

\* Durations handed to to_unit, ns.
Durations == {i * 500 : i \in (-MaxStep)..MaxStep}

---------------------------------------------------------------------------
(* Specification: a Benchmark is configured and run once. *)

Init ==
    /\ Benchmark
    /\ NotStarted
    /\ result = BenchmarkResult("Nanoseconds")
    /\ pc = "idle"

Next ==
    \/ \E count \in WarmupArgs : warmup(count)
    \/ \E count \in IterationArgs : iterations(count)
    \/ \E duration \in TargetArgs : target_duration(duration)
    \/ \E u \in TimeUnit : unit(u)
    \/ \E f \in FailPoints : run_begin(f)
    \/ run_warmup
    \/ \E total \in TotalTimes : run_calibrate(total)
    \/ run_adjust
    \/ \E elapsed \in ElapsedTimes : run_measure(elapsed)
    \/ run_reduce

Spec == Init /\ [][Next]_vars

---------------------------------------------------------------------------
(* Specification: a BenchmarkResult is filled by hand and reduced, as in    *)
(* UnitTests.CalculateStatisticsDeterministic.                              *)

InitStats ==
    /\ Benchmark
    /\ NotStarted
    /\ \E u \in TimeUnit : result = BenchmarkResult(u)
    /\ pc = "filling"

\* r.durations.push_back(d)
fill(d) ==
    /\ pc = "filling"
    /\ Size(result.durations) < MaxLen
    /\ result' = [result EXCEPT !.durations = push_back(@, d)]
    /\ UNCHANGED <<config_vars, pc, fail_at, calls, total_time, adjusted_iterations,
                   ret, cerr, conv>>

\* r.calculate_statistics()
reduce ==
    /\ pc = "filling"
    /\ LET c == calculate_statistics(result)
       IN  /\ result' = c.r
           /\ cerr' = cerr + c.warned
    /\ pc' = "reduced"
    /\ UNCHANGED <<config_vars, fail_at, calls, total_time, adjusted_iterations, ret, conv>>

NextStats ==
    \/ \E d \in SampleTimes : fill(d)
    \/ reduce

SpecStats == InitStats /\ [][NextStats]_vars

---------------------------------------------------------------------------
(* Specification: to_unit is applied, as in UnitTests.ToUnitConversions.    *)

InitToUnit ==
    /\ Benchmark
    /\ NotStarted
    /\ result = BenchmarkResult("Nanoseconds")
    /\ pc = "converting"

\* to_unit(d, u)
convert(d, u) ==
    /\ pc = "converting"
    /\ conv' = <<[d |-> d, unit |-> u, value |-> to_unit(d, u)]>>
    /\ UNCHANGED <<config_vars, pc, fail_at, calls, total_time, adjusted_iterations,
                   result, ret, cerr>>

NextToUnit == \E d \in Durations, u \in TimeUnit : convert(d, u)

SpecToUnit == InitToUnit /\ [][NextToUnit]_vars

---------------------------------------------------------------------------
(* Vocabulary of the properties *)

\* The vector a run-length encoding stands for.
RECURSIVE Expand(_)
Expand(durs) ==
    IF Len(durs) = 0 THEN << >>
    ELSE LET last == durs[Len(durs)]
         IN  Expand(SubSeq(durs, 1, Len(durs) - 1)) \o [i \in 1..last.k |-> last.v]

RECURSIVE SeqSum(_)
SeqSum(seq) == IF Len(seq) = 0 THEN 0 ELSE seq[1] + SeqSum(Tail(seq))

\* Vector a is an initial part of vector b (both run-length encoded).
IsPrefix(a, b) ==
    \/ Len(a) = 0
    \/ /\ Len(a) <= Len(b)
       /\ \A i \in 1..(Len(a) - 1) : a[i] = b[i]
       /\ a[Len(a)].v = b[Len(a)].v
       /\ a[Len(a)].k <= b[Len(a)].k

\* The four derived fields are at their zero defaults.
ZeroStatistics(r) ==
    /\ r.min_time = Zero
    /\ r.mean_time = Zero
    /\ r.stddev_time = Sqrt(Zero)
    /\ r.ops_per_sec = Zero

\* target_ns / (total / 1000) >= m, for total > 0: m * (total / 1000) <= target_ns.
QuotientAtLeast(target_ms, total, m) ==
    RatLE(RatMul(RatOfInt(m), Rat(total, 1000)), RatOfInt(target_ms * NsPerMs))

\* n = clamp(trunc(target_ns / (total / 1000)), 1000, 1000000), for total > 0.
IsClampedQuotient(n, target_ms, total) ==
    IF QuotientAtLeast(target_ms, total, 1000000) THEN n = 1000000
    ELSE IF ~QuotientAtLeast(target_ms, total, 1001) THEN n = 1000
    ELSE /\ QuotientAtLeast(target_ms, total, n)
         /\ ~QuotientAtLeast(target_ms, total, n + 1)

\* The measurement loop of run() has been left by its end.
Measured == pc \in {"reducing", "reduced"}

\* The position of a phase in the protocol of run().
Rank(p) ==
    CASE p = "idle"        -> 0
      [] p = "warmup"      -> 1
      [] p = "calibrating" -> 2
      [] p = "adjusting"   -> 3
      [] p = "measuring"   -> 4
      [] p = "reducing"    -> 5
      [] p = "reduced"     -> 6
      [] OTHER             -> 7

---------------------------------------------------------------------------
(* Properties *)

\* C1: when the calibration probe measured a total above 0 ns, the number of
\* timed invocations, and the length of the sample sequence, is
\* clamp(trunc(target_duration_ns / (total / 1000)), 1000, 1000000), whatever
\* the nominal iteration count.
C1_AdjustedIsClampedQuotient ==
    (Measured /\ total_time > 0) =>
        /\ IsClampedQuotient(Size(result.durations), target_duration_, total_time)
        /\ calls = warmup_iterations_ + 1000 + Size(result.durations)

C1_Witness ==
    /\ pc = "reduced"
    /\ total_time > 0
    /\ Size(result.durations) = 1000000
    /\ iterations_ # 1000000

\* C2: when the calibration probe measured a total of zero or less, the
\* measurement invokes the callable exactly nominal_iterations times, unclamped,
\* and the sample sequence has that length.
C2_FallbackIsNominal ==
    (Measured /\ total_time <= 0) =>
        /\ adjusted_iterations = iterations_
        /\ Size(result.durations) = iterations_
        /\ calls = warmup_iterations_ + 1000 + iterations_

C2_Witness ==
    /\ pc = "reduced"
    /\ total_time <= 0
    /\ Size(result.durations) > 1000000

\* C3: once the callable has failed (on its fail_at-th invocation) run() is in
\* the Failed state, which it never leaves: the callable has not been invoked
\* again, the reduction has not run and nothing has been returned.
C3_FailurePropagates ==
    /\ (fail_at > 0 /\ calls >= fail_at) =>
          /\ pc = "failed"
          /\ calls = fail_at
          /\ ret = << >>
          /\ cerr = 0
          /\ ZeroStatistics(result)
    /\ pc = "failed" => (fail_at > 0 /\ calls = fail_at /\ ~ENABLED Next)

C3_Witness ==
    /\ pc = "failed"
    /\ Size(result.durations) > 0

C5_EmptyLeavesZeros ==
    (pc = "reduced" /\ Size(result.durations) = 0) =>
        /\ ZeroStatistics(result)
        /\ cerr = 1

C5_Witness ==
    /\ pc = "reduced"
    /\ Size(result.durations) = 0
    /\ cerr = 1

\* C6: after calculate_statistics on a non-empty sample sequence, in every
\* unit, min_time <= mean_time and stddev_time >= 0.
C6_MinAtMostMean ==
    (pc = "reduced" /\ Size(result.durations) > 0) =>
        /\ RatLE(result.min_time, result.mean_time)
        /\ SqrtGE0(result.stddev_time)

\* C7: after calculate_statistics on a non-empty sample sequence, mean_time
\* times the sample count is the nanosecond sum of the samples divided by the
\* unit's period and truncated toward zero; and [1000, 2000, 3000] ns in
\* microseconds gives mean 2, min 1, stddev 1 and 500000 ops/sec.
C7_MeanConvertsTheSum ==
    (pc = "reduced" /\ Size(result.durations) > 0) =>
        LET samples == Expand(result.durations)
            sum     == SeqSum(samples)
            period  == Period(result.time_unit)
            q       == RatMul(result.mean_time, RatOfInt(Len(samples)))
        IN  /\ q.d = 1
            /\ Abs(q.n) * period <= Abs(sum)
            /\ Abs(sum) < (Abs(q.n) + 1) * period
            /\ q.n * sum >= 0
            /\ (samples = <<1000, 2000, 3000>> /\ result.time_unit = "Microseconds") =>
                  /\ result.mean_time = RatOfInt(2)
                  /\ result.min_time = RatOfInt(1)
                  /\ SqrtEq(result.stddev_time, RatOfInt(1))
                  /\ result.ops_per_sec = RatOfInt(500000)

C7_Witness ==
    /\ pc = "reduced"
    /\ result.time_unit = "Microseconds"
    /\ Expand(result.durations) = <<1000, 2000, 3000>>
    /\ result.mean_time = RatOfInt(2)

\* C8: every run() that completes returns a result with a non-empty sample
\* sequence and with min_time > 0 and mean_time > 0, in every unit.
C8_ResultIsPositive ==
    pc = "reduced" =>
        /\ ret # << >>
        /\ Size(ret[1].durations) > 0
        /\ RatLT(Zero, ret[1].min_time)
        /\ RatLT(Zero, ret[1].mean_time)

\* C9: to_unit(d, unit) is the exact value of d in the unit, fraction kept:
\* the value times the unit's period in nanoseconds is d.
C9_ToUnitIsExact ==
    conv # << >> =>
        RatMul(conv[1].value, RatOfInt(Period(conv[1].unit))) = RatOfInt(conv[1].d)

\* What every step that does not fail does to the phase, the invocation count,
\* the sample sequence, the statistics and the returned record.
C10_Step ==
    pc' \notin {"failed", "aborted"} =>
        /\ Rank(pc') \in {Rank(pc), Rank(pc) + 1}
        /\ Rank(pc') = Rank(pc) => pc = "idle"
        /\ pc = "warmup" => (calls = 0 /\ calls' = warmup_iterations_)
        /\ pc = "calibrating" => calls' = calls + 1000
        /\ pc = "measuring" => calls' = calls + adjusted_iterations
        /\ pc \notin {"warmup", "calibrating", "measuring"} => calls' = calls
        /\ Rank(pc') <= Rank("measuring") => Size(result'.durations) = 0
        /\ IsPrefix(result.durations, result'.durations)
        /\ Size(result'.durations) - Size(result.durations)
             = IF pc = "measuring" THEN calls' - calls ELSE 0
        /\ pc # "reducing" => (ZeroStatistics(result') /\ ret' = << >>)
        /\ pc = "reducing" =>
              /\ ret' = <<result'>>
              /\ calls = warmup_iterations_ + 1000 + adjusted_iterations
              /\ Size(result.durations) = adjusted_iterations

\* C10: every step of run() that does not fail keeps the order Warming-up,
\* Calibrating, Adjusting, Measuring, Reduced, one phase at a time; the warmup
\* makes exactly warmup_iterations invocations, the probe exactly 1000, the
\* measurement exactly adjusted_iterations, no other step any; the sample
\* sequence is empty until the measurement, only ever extended, and by one
\* sample per measurement invocation; the statistics are written and the result
\* returned only by the step after the measurement.
C10_PhasesInOrder == [][C10_Step]_vars

C10_Witness ==
    /\ pc = "reduced"
    /\ ret # << >>
    /\ calls = warmup_iterations_ + 1000 + Size(ret[1].durations)

=============================================================================
